---- MODULE Spec2Model ----
(***************************************************************************)
(* DS-TWR initiator (ds_init_main.c): one ranging round of dsInitRun and   *)
(* the task loop that calls it, together with the DW1000 transceiver the   *)
(* round polls.  C integers wider than 31 bits (the 40-bit timestamps in   *)
(* their uint64 containers, the uint32 delayed-TX time) are little-endian  *)
(* byte sequences, so that shifts, truncations and carries are those of    *)
(* the C code.  C array index i is sequence index i + 1.                   *)
(***************************************************************************)
EXTENDS Integers, Sequences, FiniteSets, TLC

(* ------------------------------------------------------------------ *)
(* Program constants                                                    *)
(* ------------------------------------------------------------------ *)
ALL_MSG_COMMON_LEN == 10
EX_SEQ_COUNT_IDX == 2
FINAL_MSG_TX_1_IDX == 10
FINAL_MSG_TX_2_IDX == 14
FINAL_MSG_RX_1_IDX == 18
ANCHOR_ID_IDX == 10
FINAL_MSG_TS_LEN == 4
ANCHORS_TOTAL_COUNT == 3
RX_BUF_LEN == 32
UUS_TO_DWT_TIME == 65536
TX_ANT_DLY == 16436
RESP_RX_TO_FINAL_TX_DLY_UUS == 3800
DWT_SUCCESS == 0
DWT_ERROR == -1

tagFirstMsgInit == <<65, 136, 0, 202, 222, 87, 65, 86, 69, 224, 0, 0>>
anchorMsg == <<65, 136, 0, 202, 222, 86, 69, 87, 65, 225, 0, 0, 0, 0, 0, 0, 0, 0, 0, 0>>
tagFinalMsgInit == <<65, 136, 0, 202, 222, 87, 65, 86, 69, 35>> \o [i \in 1..22 |-> 0]

(* ------------------------------------------------------------------ *)
(* Bounds of the model                                                  *)
(* ------------------------------------------------------------------ *)
\* receive events (frames, timeouts, errors) the transceiver signals in a run
MaxRxEvents == 3
\* the same for the run of many rounds: 257 rounds of three responses
MaxSeqRxEvents == 771
\* the same for the run over the RX timestamps of the arithmetic: one round
MaxArithRxEvents == 3
\* the same for the run of two rounds of three responses
MaxRoundsRxEvents == 6

(* ------------------------------------------------------------------ *)
(* Fixed-width arithmetic on little-endian byte sequences               *)
(* ------------------------------------------------------------------ *)
RECURSIVE LE(_, _)
LE(n, k) == IF k = 0 THEN <<>> ELSE <<n % 256>> \o LE(n \div 256, k - 1)

Zero64 == [i \in 1..8 |-> 0]

RECURSIVE AddCarry(_, _, _)
AddCarry(a, b, c) ==
  IF a = <<>> THEN <<>>
  ELSE LET s == Head(a) + Head(b) + c
       IN  <<s % 256>> \o AddCarry(Tail(a), Tail(b), s \div 256)

\* uint64 + uint64, the carry out of bit 63 dropped
Add64(a, b) == AddCarry(a, b, 0)

\* ts <<= 8 and ts >>= 8 on a uint64
Shl8(ts) == <<0>> \o SubSeq(ts, 1, 7)
Shr8(ts) == Tail(ts) \o <<0>>

RECURSIVE BitOr(_, _, _)
BitOr(a, b, k) ==
  IF k = 0 THEN 0
  ELSE (IF a % 2 = 1 \/ b % 2 = 1 THEN 1 ELSE 0) + 2 * BitOr(a \div 2, b \div 2, k - 1)

\* ts |= b for a uint8 b
OrByte(ts, b) == [ts EXCEPT ![1] = BitOr(ts[1], b, 8)]

\* (uint32) of a uint64, (uint64) of a uint32, (uint8) of a uint64
Low32(ts) == SubSeq(ts, 1, 4)
Widen(w) == w \o <<0, 0, 0, 0>>
Low8(ts) == ts[1]

\* a 32-bit word read as a signed int
S32(w) == w[1] + 256 * w[2] + 65536 * w[3]
          + 16777216 * (IF w[4] >= 128 THEN w[4] - 256 ELSE w[4])

(* ------------------------------------------------------------------ *)
(* Timestamp readers and Final-frame field writers                      *)
(* ------------------------------------------------------------------ *)
\* for (i = 4; i >= 0; i--) { ts <<= 8; ts |= tsTab[i]; }
RECURSIVE AssembleFrom(_, _, _)
AssembleFrom(tsTab, i, ts) ==
  IF i < 0 THEN ts
  ELSE AssembleFrom(tsTab, i - 1, OrByte(Shl8(ts), tsTab[i + 1]))

\* the loop started at i = 3, the top byte of the register left out
getTxTimestampU64_FourBytes(tsTab) == AssembleFrom(tsTab, 3, Zero64)

getTxTimestampU64(tsTab) == AssembleFrom(tsTab, 4, Zero64)
getRxTimestampU64(tsTab) == AssembleFrom(tsTab, 4, Zero64)

\* for (j = from; j < to; j++) { tsField[j] = (uint8) ts; ts >>= 8; }
\* on the frame msg, tsField being &msg[base]
RECURSIVE WriteBytes(_, _, _, _, _)
WriteBytes(msg, base, from, to, ts) ==
  IF from >= to THEN msg
  ELSE WriteBytes([msg EXCEPT ![base + from + 1] = Low8(ts)], base, from + 1, to, Shr8(ts))

\* one byte fewer written
finalMsgSetTs_ThreeBytes(msg, base, ts) == WriteBytes(msg, base, 0, FINAL_MSG_TS_LEN - 1, ts)

finalMsgSetTs(msg, base, ts) == WriteBytes(msg, base, 0, FINAL_MSG_TS_LEN, ts)

\* for (i = 0; i < ANCHORS_TOTAL_COUNT; i++) { ts = anchorsTimestamps[i]; ... }
RECURSIVE SetRxTsFrom(_, _, _, _)
SetRxTsFrom(msg, base, table, i) ==
  IF i >= ANCHORS_TOTAL_COUNT THEN msg
  ELSE SetRxTsFrom(WriteBytes(msg, base, i * 4, (i + 1) * FINAL_MSG_TS_LEN, table[i + 1]),
                   base, table, i + 1)

finalMsgSetRxTs(msg, base, table) == SetRxTsFrom(msg, base, table, 0)

(* ------------------------------------------------------------------ *)
(* Delayed-transmission arithmetic of dsInitRun                         *)
(* ------------------------------------------------------------------ *)
\* the table slot the delay is computed from
SchedSlot == ANCHORS_TOTAL_COUNT - 1

\* the delay added in microseconds, without the conversion to device time units
SendDelayTime_DelayInUus(rx) ==
  Low32(Shr8(Add64(rx, LE(RESP_RX_TO_FINAL_TX_DLY_UUS, 8))))

\* (rx + (RESP_RX_TO_FINAL_TX_DLY_UUS * UUS_TO_DWT_TIME)) >> 8, stored in a uint32
SendDelayTime(rx) ==
  Low32(Shr8(Add64(rx, LE(RESP_RX_TO_FINAL_TX_DLY_UUS * UUS_TO_DWT_TIME, 8))))

\* the antenna delay left out
FinalTxTimestamp_NoAntDelay(t) ==
  Shl8(Widen([t EXCEPT ![1] = t[1] - (t[1] % 2)]))

\* the low bit of the scheduled time kept
FinalTxTimestamp_NoMask(t) ==
  Add64(Shl8(Widen(t)), LE(TX_ANT_DLY, 8))

\* (((uint64)(t & 0xFFFFFFFEUL)) << 8) + TX_ANT_DLY
FinalTxTimestamp(t) ==
  Add64(Shl8(Widen([t EXCEPT ![1] = t[1] - (t[1] % 2)])), LE(TX_ANT_DLY, 8))

\* the increment on a type wider than 8 bits
IncSeq_NoWrap(s) == s + 1

\* exchangeSeqCount++ on a uint8
IncSeq(s) == (s + 1) % 256

(* ------------------------------------------------------------------ *)
(* Frames and timestamps the transceiver can deliver                    *)
(* ------------------------------------------------------------------ *)
AnchorFrame(seq, id) ==
  [anchorMsg EXCEPT ![EX_SEQ_COUNT_IDX + 1] = seq, ![ANCHOR_ID_IDX + 1] = id]

\* a Poll of another initiator, a frame shorter than the common header and a
\* frame longer than the receive buffer
PollFrame == [tagFirstMsgInit EXCEPT ![EX_SEQ_COUNT_IDX + 1] = 9]
ShortFrame == <<65, 136, 5, 202, 222>>
LongFrame == [i \in 1..(RX_BUF_LEN + 1) |-> 85]

RxAnchorIds == {0, 1, 2, 3, 4, 255}
RxFrames == {AnchorFrame(7, id) : id \in RxAnchorIds} \cup {PollFrame, ShortFrame, LongFrame}
RxStamps == {<<64, 66, 15, 0, 0>>, <<255, 255, 255, 255, 255>>}
TxStamps == {<<16, 39, 0, 0, 0>>, <<1, 0, 0, 128, 255>>}

\* RX timestamps for the delayed-transmission arithmetic: 1000000, the last
\* value before the 40-bit wrap, and 0xFFF127C000, which with the reply delay
\* comes to 0xFFFFFFC000
ArithRxStamps == {<<64, 66, 15, 0, 0>>, <<255, 255, 255, 255, 255>>, <<0, 192, 39, 241, 255>>}

\* RX timestamps for the 32-bit fields: 0xFFFFFFF0, the Final following it
\* past 2^32, and 1000000
TruncRxStamps == {<<240, 255, 255, 255, 0>>, <<64, 66, 15, 0, 0>>}

SeqFrames == {AnchorFrame(0, id) : id \in 1..ANCHORS_TOTAL_COUNT}
SeqRxStamps == {<<64, 66, 15, 0, 0>>}
SeqTxStamps == {<<16, 39, 0, 0, 0>>}

\* What the 8 bytes below anchorsTimestamps hold in the linked image: memory the
\* round never reads, anchorsCount in the low or in the high word (the counters
\* are declared just before the table), or tagTxTimestamp2.
Layouts == {"pad", "countLow", "countHigh", "txTs2"}

(* ------------------------------------------------------------------ *)
(* State                                                                *)
(* ------------------------------------------------------------------ *)
\* the statics and locals of ds_init_main.c and the position in the task
VARIABLES pc, exchangeSeqCount, tagFirstMsg, tagFinalMsg, rxBuffer, statusReg,
          tagTxTimestamp1, tagRxTimestamp1, tagTxTimestamp2, txCount,
          anchorsCount, anchorsTimestamps, tagSendDelayTime, txStatus, ret
\* the transceiver: SYS_STATUS event bits, receiver armed, transmission in
\* progress, RX frame buffer, RX and TX timestamp registers, TX buffer, DX_TIME
VARIABLES sysStatus, rxOn, radioTx, hwRxFrame, hwRxStamp, hwTxStamp, txData, delayedTime
\* the link-time neighbour of anchorsTimestamps, "unresolved" until the first
\* store below the table shows which one the image has
VARIABLES layout
\* history: table indices written in this exchange, rounds that built a Final,
\* delayed-transmit requests of this round, receive events signalled so far
\* and in this round, RX timestamp register at the last response recorded for
\* each anchor in this round
VARIABLES written, finalizations, finalTxRequests, rxEvents, roundRxEvents, acceptedRx
\* the twist solver's last call: arguments, branch taken and returned value
VARIABLES twistCall

twistVars == <<twistCall>>
\* before the first call
NoTwistCall == [x |-> 0, y |-> 0, z |-> 0, wheelPos |-> "none", belowLim |-> FALSE,
                out |-> [branch |-> "none", result |-> "none"]]
progVars == <<pc, exchangeSeqCount, tagFirstMsg, tagFinalMsg, rxBuffer, statusReg,
              tagTxTimestamp1, tagRxTimestamp1, tagTxTimestamp2, txCount,
              anchorsCount, anchorsTimestamps, tagSendDelayTime, txStatus, ret>>
hwVars == <<sysStatus, rxOn, radioTx, hwRxFrame, hwRxStamp, hwTxStamp, txData, delayedTime>>
histVars == <<written, finalizations, finalTxRequests, rxEvents, roundRxEvents, acceptedRx>>
vars == <<progVars, hwVars, layout, histVars, twistVars>>

\* a local that has not been assigned in this call
NoStatus == 1
NoReturn == 0

RxEvents == {"RXFCG", "RXTO", "RXERR"}

Init ==
  /\ pc = "Idle"
  /\ exchangeSeqCount = 0
  /\ tagFirstMsg = tagFirstMsgInit
  /\ tagFinalMsg = tagFinalMsgInit
  /\ rxBuffer = [i \in 1..RX_BUF_LEN |-> 0]
  /\ statusReg = {}
  /\ tagTxTimestamp1 = Zero64
  /\ tagRxTimestamp1 = Zero64
  /\ tagTxTimestamp2 = Zero64
  /\ txCount = 0
  /\ anchorsCount = 0
  /\ anchorsTimestamps = [i \in 1..ANCHORS_TOTAL_COUNT |-> Zero64]
  /\ tagSendDelayTime = <<0, 0, 0, 0>>
  /\ txStatus = NoStatus
  /\ ret = NoReturn
  /\ sysStatus = {}
  /\ rxOn = FALSE
  /\ radioTx = "none"
  /\ hwRxFrame = <<>>
  /\ hwRxStamp = <<0, 0, 0, 0, 0>>
  /\ hwTxStamp = <<0, 0, 0, 0, 0>>
  /\ txData = <<>>
  /\ delayedTime = <<0, 0, 0, 0>>
  /\ layout = "unresolved"
  /\ written = {}
  /\ finalizations = 0
  /\ finalTxRequests = 0
  /\ rxEvents = 0
  /\ roundRxEvents = 0
  /\ twistCall = NoTwistCall
  /\ acceptedRx = [i \in 1..ANCHORS_TOTAL_COUNT |-> <<0, 0, 0, 0, 0>>]

(* ------------------------------------------------------------------ *)
(* dsInitRun                                                            *)
(* ------------------------------------------------------------------ *)
\* dwt_writetxdata copies size - 2 bytes, the checksum being appended by the DW1000
TxBytes(msg) == SubSeq(msg, 1, Len(msg) - 2)

\* the table left as the previous round filled it
ClearedTable_Kept(table) == table

\* line 121: memset(anchorsTimestamps, 0, sizeof(anchorsTimestamps))
ClearedTable(table) == [i \in 1..ANCHORS_TOTAL_COUNT |-> Zero64]

\* lines 121-135: clear the table, send the Poll expecting a response
StartRound ==
  /\ pc = "Idle"
  /\ anchorsTimestamps' = ClearedTable(anchorsTimestamps)
  /\ tagFirstMsg' = [tagFirstMsg EXCEPT ![EX_SEQ_COUNT_IDX + 1] = exchangeSeqCount]
  /\ sysStatus' = sysStatus \ {"TXFRS"}
  /\ txData' = TxBytes(tagFirstMsg')
  /\ radioTx' = "poll"
  /\ txCount' = txCount + 1
  /\ anchorsCount' = 0
  /\ tagSendDelayTime' = <<0, 0, 0, 0>>
  /\ txStatus' = NoStatus
  /\ ret' = NoReturn
  /\ pc' = "Await"
  /\ written' = {}
  /\ finalTxRequests' = 0
  /\ roundRxEvents' = 0
  /\ acceptedRx' = [i \in 1..ANCHORS_TOTAL_COUNT |-> <<0, 0, 0, 0, 0>>]
  /\ UNCHANGED <<exchangeSeqCount, tagFinalMsg, rxBuffer, statusReg, tagTxTimestamp1,
                 tagRxTimestamp1, tagTxTimestamp2, rxOn, hwRxFrame, hwRxStamp,
                 hwTxStamp, delayedTime, layout, finalizations, rxEvents>>
  /\ UNCHANGED twistVars

\* the loop bound off by one
MoreExpected_OffByOne(count) == count < ANCHORS_TOTAL_COUNT - 1

\* line 137: while (anchorsCount < ANCHORS_TOTAL_COUNT)
MoreExpected(count) == count < ANCHORS_TOTAL_COUNT

\* line 139: the inner loop reads SYS_STATUS and goes round, no receive event set
AwaitSpin ==
  /\ pc = "Await"
  /\ MoreExpected(anchorsCount)
  /\ sysStatus \cap RxEvents = {}
  /\ statusReg' = sysStatus
  /\ UNCHANGED <<pc, exchangeSeqCount, tagFirstMsg, tagFinalMsg, rxBuffer,
                 tagTxTimestamp1, tagRxTimestamp1, tagTxTimestamp2, txCount,
                 anchorsCount, anchorsTimestamps, tagSendDelayTime, txStatus, ret,
                 hwVars, layout, histVars>>
  /\ UNCHANGED twistVars

\* a timeout or error counted as a response
RxFailurePass_Counts ==
  /\ pc = "Await"
  /\ MoreExpected(anchorsCount)
  /\ sysStatus \cap RxEvents # {}
  /\ "RXFCG" \notin sysStatus
  /\ statusReg' = sysStatus
  /\ anchorsCount' = anchorsCount + 1
  /\ UNCHANGED <<pc, exchangeSeqCount, tagFirstMsg, tagFinalMsg, rxBuffer,
                 tagTxTimestamp1, tagRxTimestamp1, tagTxTimestamp2, txCount,
                 anchorsTimestamps, tagSendDelayTime, txStatus, ret,
                 hwVars, layout, histVars>>
  /\ UNCHANGED twistVars

\* lines 139-141, 192-193: a timeout or error bit ends the inner loop, the test
\* of SYS_STATUS_RXFCG fails and the outer loop goes round
RxFailurePass ==
  /\ pc = "Await"
  /\ MoreExpected(anchorsCount)
  /\ sysStatus \cap RxEvents # {}
  /\ "RXFCG" \notin sysStatus
  /\ statusReg' = sysStatus
  /\ UNCHANGED <<pc, exchangeSeqCount, tagFirstMsg, tagFinalMsg, rxBuffer,
                 tagTxTimestamp1, tagRxTimestamp1, tagTxTimestamp2, txCount,
                 anchorsCount, anchorsTimestamps, tagSendDelayTime, txStatus, ret,
                 hwVars, layout, histVars>>
  /\ UNCHANGED twistVars

\* lines 148-152: the frame is copied only when it fits the buffer
ReadFrame(buf, frame) ==
  IF Len(frame) <= RX_BUF_LEN
  THEN [i \in 1..RX_BUF_LEN |-> IF i <= Len(frame) THEN frame[i] ELSE buf[i]]
  ELSE buf

\* line 157: memcmp(rxBuffer, anchorMsg, ALL_MSG_COMMON_LEN) == 0
MatchesResponse(buf) ==
  SubSeq(buf, 1, ALL_MSG_COMMON_LEN) = SubSeq(anchorMsg, 1, ALL_MSG_COMMON_LEN)

\* line 170: the safety check on the anchor number
IdRejected(anchorID) == anchorID > ANCHORS_TOTAL_COUNT

\* line 173: anchorsTimestamps[anchorID - 1] = tagRxTimestamp1; index -1 is the
\* 8 bytes below the table, which the layout gives to another object
StoreTable(table, anchorID, ts) ==
  IF anchorID - 1 \in 0..(ANCHORS_TOTAL_COUNT - 1)
  THEN [table EXCEPT ![anchorID] = ts]
  ELSE table

\* a repeated anchor not counted again
StoreCount_OncePerAnchor(count, anchorID, ts, lay) ==
  IF anchorID - 1 \in written THEN count ELSE count + 1

\* lines 173-175: the counter after the store and anchorsCount++
StoreCount(count, anchorID, ts, lay) ==
  IF anchorID - 1 \in 0..(ANCHORS_TOTAL_COUNT - 1) THEN count + 1
  ELSE CASE lay = "countLow" -> S32(SubSeq(ts, 1, 4)) + 1
         [] lay = "countHigh" -> S32(SubSeq(ts, 5, 8)) + 1
         [] OTHER -> count + 1

StoreTxTs2(old, anchorID, ts, lay) ==
  IF anchorID - 1 \notin 0..(ANCHORS_TOTAL_COUNT - 1) /\ lay = "txTs2" THEN ts ELSE old

\* the layouts a store at this index can meet
StoreLayouts(anchorID) ==
  IF anchorID - 1 \notin 0..(ANCHORS_TOTAL_COUNT - 1) /\ layout = "unresolved"
  THEN Layouts ELSE {layout}

\* the receiver enabled after every response
RearmAfter_Always(count, on) == TRUE

\* lines 181-183: if (anchorsCount < ANCHORS_TOTAL_COUNT) dwt_rxenable(DWT_START_RX_IMMEDIATE)
RearmAfter(count, on) == IF MoreExpected(count) THEN TRUE ELSE on

\* lines 141-192: a good frame is signalled
HandleGoodFrame ==
  /\ pc = "Await"
  /\ MoreExpected(anchorsCount)
  /\ "RXFCG" \in sysStatus
  /\ statusReg' = sysStatus
  /\ LET buf == [ReadFrame(rxBuffer, hwRxFrame) EXCEPT ![EX_SEQ_COUNT_IDX + 1] = 0]
         ts == getRxTimestampU64(hwRxStamp)
         anchorID == buf[ANCHOR_ID_IDX + 1]
     IN  /\ rxBuffer' = buf
         /\ IF MatchesResponse(buf)
            THEN /\ sysStatus' = sysStatus \ {"RXFCG", "TXFRS"}
                 /\ tagRxTimestamp1' = ts
                 /\ IF IdRejected(anchorID)
                    THEN UNCHANGED <<anchorsTimestamps, anchorsCount, tagTxTimestamp2,
                                     written, layout, acceptedRx>>
                    ELSE \E lay \in StoreLayouts(anchorID) :
                         /\ layout' = lay
                         /\ anchorsTimestamps' = StoreTable(anchorsTimestamps, anchorID, ts)
                         /\ anchorsCount' = StoreCount(anchorsCount, anchorID, ts, lay)
                         /\ tagTxTimestamp2' = StoreTxTs2(tagTxTimestamp2, anchorID, ts, lay)
                         /\ written' = written \cup {anchorID - 1}
                         /\ acceptedRx' = IF anchorID \in 1..ANCHORS_TOTAL_COUNT
                                          THEN [acceptedRx EXCEPT ![anchorID] = hwRxStamp]
                                          ELSE acceptedRx
                 /\ rxOn' = RearmAfter(anchorsCount', rxOn)
            ELSE /\ sysStatus' = sysStatus \ {"RXFCG", "TXFRS", "RXTO", "RXERR"}
                 /\ rxOn' = FALSE
                 /\ UNCHANGED <<tagRxTimestamp1, anchorsTimestamps, anchorsCount,
                                tagTxTimestamp2, written, layout, acceptedRx>>
  /\ UNCHANGED <<pc, exchangeSeqCount, tagFirstMsg, tagFinalMsg, tagTxTimestamp1, txCount,
                 tagSendDelayTime, txStatus, ret, radioTx, hwRxFrame, hwRxStamp,
                 hwTxStamp, txData, delayedTime, finalizations, finalTxRequests, rxEvents,
                 roundRxEvents>>
  /\ UNCHANGED twistVars

\* the anchors' RX block right after the Poll TX field, the Final TX field last
FillFinal_RxBlockSecond(msg, pollTx, finalTx, table) ==
  finalMsgSetTs(
    finalMsgSetRxTs(finalMsgSetTs(msg, FINAL_MSG_TX_1_IDX, pollTx), FINAL_MSG_TX_2_IDX, table),
    FINAL_MSG_TX_2_IDX + ANCHORS_TOTAL_COUNT * FINAL_MSG_TS_LEN, finalTx)

\* lines 207-209: the three timestamp fields of the Final frame
FillFinal(msg, pollTx, finalTx, table) ==
  finalMsgSetRxTs(
    finalMsgSetTs(finalMsgSetTs(msg, FINAL_MSG_TX_1_IDX, pollTx), FINAL_MSG_TX_2_IDX, finalTx),
    FINAL_MSG_RX_1_IDX, table)

\* lines 196-217: the loop has ended; timestamps, Final frame, sequence number
BuildFinal ==
  /\ pc = "Await"
  /\ ~MoreExpected(anchorsCount)
  /\ tagTxTimestamp1' = getTxTimestampU64(hwTxStamp)
  /\ tagSendDelayTime' = SendDelayTime(anchorsTimestamps[SchedSlot + 1])
  /\ delayedTime' = tagSendDelayTime'
  /\ tagTxTimestamp2' = FinalTxTimestamp(tagSendDelayTime')
  /\ exchangeSeqCount' = IncSeq(exchangeSeqCount)
  /\ tagFinalMsg' = [FillFinal(tagFinalMsg, tagTxTimestamp1', tagTxTimestamp2', anchorsTimestamps)
                       EXCEPT ![EX_SEQ_COUNT_IDX + 1] = exchangeSeqCount']
  /\ txData' = TxBytes(tagFinalMsg')
  /\ pc' = "Finalizing"
  /\ finalizations' = finalizations + 1
  /\ UNCHANGED <<tagFirstMsg, rxBuffer, statusReg, tagRxTimestamp1, txCount, anchorsCount,
                 anchorsTimestamps, txStatus, ret, sysStatus, rxOn, radioTx, hwRxFrame,
                 hwRxStamp, hwTxStamp, layout, written, finalTxRequests, rxEvents,
                 roundRxEvents, acceptedRx>>
  /\ UNCHANGED twistVars

\* lines 218-221, 232: dwt_starttx(DWT_START_TX_DELAYED) is accepted, or refused
\* because the programmed time has passed; on refusal the function returns
StartDelayedTx ==
  /\ pc = "Finalizing"
  /\ finalTxRequests' = finalTxRequests + 1
  /\ \E accepted \in BOOLEAN :
       /\ txStatus' = IF accepted THEN DWT_SUCCESS ELSE DWT_ERROR
       /\ radioTx' = IF accepted THEN "final" ELSE radioTx
       /\ pc' = IF accepted THEN "WaitTx" ELSE "Returned"
       /\ ret' = IF accepted THEN ret ELSE 1
  /\ UNCHANGED <<exchangeSeqCount, tagFirstMsg, tagFinalMsg, rxBuffer, statusReg,
                 tagTxTimestamp1, tagRxTimestamp1, tagTxTimestamp2, txCount,
                 anchorsCount, anchorsTimestamps, tagSendDelayTime, sysStatus, rxOn,
                 hwRxFrame, hwRxStamp, hwTxStamp, txData, delayedTime, layout,
                 written, finalizations, rxEvents, roundRxEvents,
                 acceptedRx>>
  /\ UNCHANGED twistVars

\* the wait for the TX frame sent event left out
TxFrameSent_NoWait(status) == TRUE

\* line 223: while (!(dwt_read32bitreg(SYS_STATUS_ID) & SYS_STATUS_TXFRS))
TxFrameSent(status) == "TXFRS" \in status

\* lines 223-232: the TX frame sent event is seen and cleared, the function returns
WaitTxDone ==
  /\ pc = "WaitTx"
  /\ TxFrameSent(sysStatus)
  /\ sysStatus' = sysStatus \ {"TXFRS"}
  /\ ret' = 1
  /\ pc' = "Returned"
  /\ UNCHANGED <<exchangeSeqCount, tagFirstMsg, tagFinalMsg, rxBuffer, statusReg,
                 tagTxTimestamp1, tagRxTimestamp1, tagTxTimestamp2, txCount,
                 anchorsCount, anchorsTimestamps, tagSendDelayTime, txStatus, rxOn,
                 radioTx, hwRxFrame, hwRxStamp, hwTxStamp, txData, delayedTime,
                 layout, histVars>>
  /\ UNCHANGED twistVars

\* the task stops after a round whose Final was refused
TaskDelay_HaltOnAbandoned ==
  /\ pc = "Returned"
  /\ txStatus = DWT_SUCCESS
  /\ pc' = "Idle"
  /\ UNCHANGED <<exchangeSeqCount, tagFirstMsg, tagFinalMsg, rxBuffer, statusReg,
                 tagTxTimestamp1, tagRxTimestamp1, tagTxTimestamp2, txCount,
                 anchorsCount, anchorsTimestamps, tagSendDelayTime, txStatus, ret,
                 hwVars, layout, histVars>>
  /\ UNCHANGED twistVars

\* lines 320-325: the task drops the result and delays before the next round
TaskDelay ==
  /\ pc = "Returned"
  /\ pc' = "Idle"
  /\ UNCHANGED <<exchangeSeqCount, tagFirstMsg, tagFinalMsg, rxBuffer, statusReg,
                 tagTxTimestamp1, tagRxTimestamp1, tagTxTimestamp2, txCount,
                 anchorsCount, anchorsTimestamps, tagSendDelayTime, txStatus, ret,
                 hwVars, layout, histVars>>
  /\ UNCHANGED twistVars

(* ------------------------------------------------------------------ *)
(* The transceiver, as the round observes it through SYS_STATUS         *)
(* ------------------------------------------------------------------ *)
\* the frame in the TX buffer has gone out: TXFRS, the TX timestamp, and for
\* the Poll (DWT_RESPONSE_EXPECTED, line 130) the receiver turns on
HwTxDone(stamp) ==
  /\ radioTx # "none"
  /\ sysStatus' = sysStatus \cup {"TXFRS"}
  /\ hwTxStamp' = stamp
  /\ rxOn' = IF radioTx = "poll" THEN TRUE ELSE rxOn
  /\ radioTx' = "none"
  /\ UNCHANGED <<progVars, hwRxFrame, hwRxStamp, txData, delayedTime, layout, histVars>>
  /\ UNCHANGED twistVars

\* a frame with a good checksum arrives: RXFCG, the receiver goes idle
HwRxGood(frame, stamp, maxEvents) ==
  /\ rxOn
  /\ rxEvents < maxEvents
  /\ rxEvents' = rxEvents + 1
  /\ roundRxEvents' = roundRxEvents + 1
  /\ sysStatus' = sysStatus \cup {"RXFCG"}
  /\ hwRxFrame' = frame
  /\ hwRxStamp' = stamp
  /\ rxOn' = FALSE
  /\ UNCHANGED <<progVars, radioTx, hwTxStamp, txData, delayedTime, layout,
                 written, finalizations, finalTxRequests, acceptedRx>>
  /\ UNCHANGED twistVars

\* a receive timeout (SYS_STATUS_ALL_RX_TO): the receiver goes idle
HwRxTimeout(maxEvents) ==
  /\ rxOn
  /\ rxEvents < maxEvents
  /\ rxEvents' = rxEvents + 1
  /\ roundRxEvents' = roundRxEvents + 1
  /\ sysStatus' = sysStatus \cup {"RXTO"}
  /\ rxOn' = FALSE
  /\ UNCHANGED <<progVars, radioTx, hwRxFrame, hwRxStamp, hwTxStamp, txData,
                 delayedTime, layout, written, finalizations, finalTxRequests, acceptedRx>>
  /\ UNCHANGED twistVars

\* a receive error (SYS_STATUS_ALL_RX_ERR): the receiver goes idle
HwRxError(maxEvents) ==
  /\ rxOn
  /\ rxEvents < maxEvents
  /\ rxEvents' = rxEvents + 1
  /\ roundRxEvents' = roundRxEvents + 1
  /\ sysStatus' = sysStatus \cup {"RXERR"}
  /\ rxOn' = FALSE
  /\ UNCHANGED <<progVars, radioTx, hwRxFrame, hwRxStamp, hwTxStamp, txData,
                 delayedTime, layout, written, finalizations, finalTxRequests, acceptedRx>>
  /\ UNCHANGED twistVars

(* ------------------------------------------------------------------ *)
(* Specifications                                                       *)
(* ------------------------------------------------------------------ *)
Next ==
  \/ StartRound
  \/ AwaitSpin
  \/ RxFailurePass
  \/ HandleGoodFrame
  \/ BuildFinal
  \/ StartDelayedTx
  \/ WaitTxDone
  \/ TaskDelay
  \/ \E stamp \in TxStamps : HwTxDone(stamp)
  \/ \E frame \in RxFrames, stamp \in RxStamps : HwRxGood(frame, stamp, MaxRxEvents)
  \/ HwRxTimeout(MaxRxEvents)
  \/ HwRxError(MaxRxEvents)

Spec == Init /\ [][Next]_vars

\* many rounds of well-formed responses, for the sequence number
NextSeq ==
  \/ StartRound
  \/ AwaitSpin
  \/ RxFailurePass
  \/ HandleGoodFrame
  \/ BuildFinal
  \/ StartDelayedTx
  \/ WaitTxDone
  \/ TaskDelay
  \/ \E stamp \in SeqTxStamps : HwTxDone(stamp)
  \/ \E frame \in SeqFrames, stamp \in SeqRxStamps : HwRxGood(frame, stamp, MaxSeqRxEvents)
  \/ HwRxTimeout(MaxSeqRxEvents)
  \/ HwRxError(MaxSeqRxEvents)

SpecSeq == Init /\ [][NextSeq]_vars

\* one round of well-formed responses over the RX timestamps of the arithmetic
NextArith ==
  \/ StartRound
  \/ AwaitSpin
  \/ RxFailurePass
  \/ HandleGoodFrame
  \/ BuildFinal
  \/ StartDelayedTx
  \/ WaitTxDone
  \/ TaskDelay
  \/ \E stamp \in TxStamps : HwTxDone(stamp)
  \/ \E frame \in SeqFrames, stamp \in ArithRxStamps : HwRxGood(frame, stamp, MaxArithRxEvents)
  \/ HwRxTimeout(MaxArithRxEvents)
  \/ HwRxError(MaxArithRxEvents)

SpecArith == Init /\ [][NextArith]_vars

\* one round of well-formed responses over the RX timestamps of the 32-bit fields
NextTrunc ==
  \/ StartRound
  \/ AwaitSpin
  \/ RxFailurePass
  \/ HandleGoodFrame
  \/ BuildFinal
  \/ StartDelayedTx
  \/ WaitTxDone
  \/ TaskDelay
  \/ \E stamp \in TxStamps : HwTxDone(stamp)
  \/ \E frame \in SeqFrames, stamp \in TruncRxStamps : HwRxGood(frame, stamp, MaxArithRxEvents)
  \/ HwRxTimeout(MaxArithRxEvents)
  \/ HwRxError(MaxArithRxEvents)

SpecTrunc == Init /\ [][NextTrunc]_vars

\* two rounds of well-formed responses, for what the second Final holds
NextRounds ==
  \/ StartRound
  \/ AwaitSpin
  \/ RxFailurePass
  \/ HandleGoodFrame
  \/ BuildFinal
  \/ StartDelayedTx
  \/ WaitTxDone
  \/ TaskDelay
  \/ \E stamp \in SeqTxStamps : HwTxDone(stamp)
  \/ \E frame \in SeqFrames, stamp \in TruncRxStamps : HwRxGood(frame, stamp, MaxRoundsRxEvents)
  \/ HwRxTimeout(MaxRoundsRxEvents)
  \/ HwRxError(MaxRoundsRxEvents)

SpecRounds == Init /\ [][NextRounds]_vars

\* lines 139-141: the guard of HandleGoodFrame, which it always leaves by
\* clearing RXFCG
GoodFramePending == pc = "Await" /\ MoreExpected(anchorsCount) /\ "RXFCG" \in sysStatus

\* weak fairness of HandleGoodFrame, its enabling condition written out
HandleGoodFrameFair == []<>(~GoodFramePending) \/ []<><<HandleGoodFrame>>_vars

\* line 137: the guard of BuildFinal, which it always leaves for Finalizing
ResponsesComplete == pc = "Await" /\ ~MoreExpected(anchorsCount)

\* weak fairness of BuildFinal, its enabling condition written out
BuildFinalFair == []<>(~ResponsesComplete) \/ []<><<BuildFinal>>_vars

\* the round's code runs whenever it can, and the transceiver signals the end
\* of a transmission it has started
SpecRoundsFair ==
  /\ SpecRounds
  /\ HandleGoodFrameFair /\ BuildFinalFair
  /\ WF_vars(StartDelayedTx) /\ WF_vars(WaitTxDone)
  /\ WF_vars(\E stamp \in SeqTxStamps : HwTxDone(stamp))

\* many rounds of one anchor's responses and short frames, for what one round
\* leaves to the next
StaleFrames == {AnchorFrame(0, 1), ShortFrame}

NextStale ==
  \/ StartRound
  \/ AwaitSpin
  \/ RxFailurePass
  \/ HandleGoodFrame
  \/ BuildFinal
  \/ StartDelayedTx
  \/ WaitTxDone
  \/ TaskDelay
  \/ \E stamp \in SeqTxStamps : HwTxDone(stamp)
  \/ \E frame \in StaleFrames, stamp \in SeqRxStamps : HwRxGood(frame, stamp, MaxSeqRxEvents)
  \/ HwRxTimeout(MaxSeqRxEvents)
  \/ HwRxError(MaxSeqRxEvents)

SpecStale == Init /\ [][NextStale]_vars

(* ------------------------------------------------------------------ *)
(* TwistSolver.cpp: the dispatch of solveTwist                          *)
(* ------------------------------------------------------------------ *)
\* velocities, by sign; the wheel's position; whether the body radius
\* fabs(linear.x / angular.z) is below PLATFORM_RADIUS_LIM
TwistVels == {-1, 0, 1}
WheelPositions == {"WHEEL_POS_TOP_LEFT", "WHEEL_POS_BOTTOM_LEFT",
                   "WHEEL_POS_TOP_RIGHT", "WHEEL_POS_BOTTOM_RIGHT"}

\* lines 86-120
solvSpotTurn(z) == IF z = 0 THEN "TWIST_ZERO" ELSE "TWIST_OK"

\* lines 134-184
solvInArcTurn(x, z, belowLim) ==
  IF z = 0 THEN "TWIST_ZERO" ELSE IF belowLim THEN "TWIST_EX_LIM" ELSE "TWIST_OK"

\* lines 198-248
solvOutArcTurn(x, z, belowLim) ==
  IF z = 0 THEN "TWIST_ZERO" ELSE IF belowLim THEN "TWIST_EX_LIM" ELSE "TWIST_OK"

\* lines 262-310
solvArcTurn(x, z, wheelPos, belowLim) ==
  IF z > 0 /\ wheelPos \in {"WHEEL_POS_TOP_LEFT", "WHEEL_POS_BOTTOM_LEFT"}
  THEN IF x > 0 THEN solvInArcTurn(x, z, belowLim) ELSE solvOutArcTurn(x, z, belowLim)
  ELSE IF z > 0 /\ wheelPos \in {"WHEEL_POS_TOP_RIGHT", "WHEEL_POS_BOTTOM_RIGHT"}
  THEN IF x > 0 THEN solvOutArcTurn(x, z, belowLim) ELSE solvInArcTurn(x, z, belowLim)
  ELSE IF z < 0 /\ wheelPos \in {"WHEEL_POS_TOP_RIGHT", "WHEEL_POS_BOTTOM_RIGHT"}
  THEN IF x > 0 THEN solvInArcTurn(x, z, belowLim) ELSE solvOutArcTurn(x, z, belowLim)
  ELSE IF x > 0 THEN solvOutArcTurn(x, z, belowLim) ELSE solvInArcTurn(x, z, belowLim)

\* lines 322-353
solvStrafe(x, y) == "TWIST_OK"

\* a strafe with a turn handled as a strafe
solveTwist_StrafeIgnoresTurn(x, y, z, wheelPos, belowLim) ==
  IF x = 0 /\ y = 0 /\ z = 0 THEN [branch |-> "stop", result |-> "TWIST_OK"]
  ELSE IF x # 0 /\ y = 0 /\ z = 0 THEN [branch |-> "straight", result |-> "TWIST_OK"]
  ELSE IF x = 0 /\ y = 0 /\ z # 0 THEN [branch |-> "spotTurn", result |-> solvSpotTurn(z)]
  ELSE IF x # 0 /\ y = 0 /\ z # 0
  THEN [branch |-> "arcTurn", result |-> solvArcTurn(x, z, wheelPos, belowLim)]
  ELSE [branch |-> "strafe", result |-> solvStrafe(x, y)]

\* lines 14-59: the branch taken and the value returned
solveTwist(x, y, z, wheelPos, belowLim) ==
  IF x = 0 /\ y = 0 /\ z = 0 THEN [branch |-> "stop", result |-> "TWIST_OK"]
  ELSE IF x # 0 /\ y = 0 /\ z = 0 THEN [branch |-> "straight", result |-> "TWIST_OK"]
  ELSE IF x = 0 /\ y = 0 /\ z # 0 THEN [branch |-> "spotTurn", result |-> solvSpotTurn(z)]
  ELSE IF x # 0 /\ y = 0 /\ z # 0
  THEN [branch |-> "arcTurn", result |-> solvArcTurn(x, z, wheelPos, belowLim)]
  ELSE IF x = 0 /\ y # 0 /\ z = 0 THEN [branch |-> "strafe", result |-> solvStrafe(x, y)]
  ELSE IF x # 0 /\ y # 0 /\ z = 0 THEN [branch |-> "strafe", result |-> solvStrafe(x, y)]
  ELSE [branch |-> "none", result |-> "TWIST_UNKNOWN"]

\* a call of solveTwist
SolveTwistCall(x, y, z, wheelPos, belowLim) ==
  /\ twistCall' = [x |-> x, y |-> y, z |-> z, wheelPos |-> wheelPos, belowLim |-> belowLim,
                   out |-> solveTwist(x, y, z, wheelPos, belowLim)]
  /\ UNCHANGED <<progVars, hwVars, layout, histVars>>

NextTwist ==
  \E x \in TwistVels, y \in TwistVels, z \in TwistVels,
     wheelPos \in WheelPositions, belowLim \in BOOLEAN :
    SolveTwistCall(x, y, z, wheelPos, belowLim)

SpecTwist == Init /\ [][NextTwist]_vars

(* ------------------------------------------------------------------ *)
(* Properties                                                           *)
(* ------------------------------------------------------------------ *)
\* the round has left the response loop: Finalizing or a terminal state
PastResponses == pc \in {"Finalizing", "WaitTx", "Returned"}

AllSlots == 0..(ANCHORS_TOTAL_COUNT - 1)

\* C1: a round never enters Finalizing (reads the poll TX timestamp, builds or
\* schedules the Final frame) while its response counter is below N.
C1_NoEarlyFinalize == PastResponses => anchorsCount >= ANCHORS_TOTAL_COUNT

C1_Witness == pc = "Finalizing" /\ anchorsCount = ANCHORS_TOTAL_COUNT /\ written = AllSlots

\* C2: whenever a step of the response loop increments the response counter or
\* writes a timestamp, the anchor id of the frame it handled is in 1..N.
C2_OnlyIdsInRange ==
  [][(pc = "Await" /\ (anchorsCount' # anchorsCount \/ written' # written
                        \/ anchorsTimestamps' # anchorsTimestamps))
       => rxBuffer'[ANCHOR_ID_IDX + 1] \in 1..ANCHORS_TOTAL_COUNT]_vars

\* C3: when a round enters Finalizing, all N slots of the table have been
\* written in this exchange; stated for the exchanges whose stores all went
\* into the table, where it fails by a repeated anchor alone.
C3_AllSlotsWritten == (PastResponses /\ written \subseteq AllSlots) => written = AllSlots

\* C4: when the round sees a receive timeout or error, it clears the timeout
\* and error flags, has the receiver listening again and stays in
\* AwaitingResponses.
C4_FailureRecovered ==
  [][RxFailurePass => (sysStatus' \cap {"RXTO", "RXERR"} = {} /\ rxOn' /\ pc' = "Await")]_vars

\* C5: a good frame that does not match the Response header changes neither
\* the response counter nor the table, and the receiver is armed again.
C5_MismatchKeepsListening ==
  [][(HandleGoodFrame /\ Len(hwRxFrame) \in ALL_MSG_COMMON_LEN..RX_BUF_LEN
        /\ ~MatchesResponse(rxBuffer'))
       => (anchorsCount' = anchorsCount /\ anchorsTimestamps' = anchorsTimestamps
           /\ written' = written /\ pc' = "Await" /\ rxOn')]_vars

\* C6: the scheduled Final transmit time is computed from the receive
\* timestamp of the most recently accepted response (tagRxTimestamp1 when the
\* loop ends, the loop ending only on an accepted response); stated for the
\* rounds in which every anchor 1..N responded.
C6_SchedFromLastAccepted ==
  (pc = "Finalizing" /\ written = AllSlots)
    => tagSendDelayTime = SendDelayTime(tagRxTimestamp1)

\* the Final frame as the claim lays it out: header, poll TX, the N anchor RX
\* timestamps in index order, final TX
RECURSIVE RxFields(_, _)
RxFields(table, i) ==
  IF i > ANCHORS_TOTAL_COUNT THEN <<>> ELSE Low32(table[i]) \o RxFields(table, i + 1)

ClaimedFinalBytes ==
  SubSeq([tagFinalMsgInit EXCEPT ![EX_SEQ_COUNT_IDX + 1] = exchangeSeqCount],
         1, ALL_MSG_COMMON_LEN)
    \o Low32(tagTxTimestamp1) \o RxFields(anchorsTimestamps, 1) \o Low32(tagTxTimestamp2)

\* C7: the Final frame is the 10-byte header, then the low 32 bits of the poll
\* TX timestamp, then the N anchor RX timestamps in anchor-index order, then
\* the low 32 bits of the final TX timestamp; stated for the rounds in which
\* every anchor 1..N responded.
C7_FinalLayout == (pc = "Finalizing" /\ written = AllSlots) => txData = ClaimedFinalBytes

\* C8: the delayed Final transmission is requested exactly once per round; an
\* accepted request is followed by the wait for transmit-complete and the round
\* returns only when the Final has gone out; a refused request returns at once,
\* with no wait and no second request.
C8_OneFinalRequest ==
  /\ pc \in {"Await", "Finalizing"} => finalTxRequests = 0
  /\ pc \in {"WaitTx", "Returned"} => finalTxRequests = 1
  /\ pc = "WaitTx" => txStatus = DWT_SUCCESS
  /\ pc = "Returned" => /\ txStatus \in {DWT_SUCCESS, DWT_ERROR}
                        /\ radioTx = "none"
                        /\ "TXFRS" \notin sysStatus

C8_Witness ==
  /\ pc = "Returned" /\ txStatus = DWT_ERROR /\ finalTxRequests = 1
  /\ anchorsCount = ANCHORS_TOTAL_COUNT

\* the value a round that ended Complete returns
CompleteResult == 1

\* C9: a round that ended Complete returns CompleteResult and a round that
\* ended Abandoned returns a different value.
C9_ResultTellsOutcome ==
  pc = "Returned" => (ret = CompleteResult <=> txStatus = DWT_SUCCESS)

MinResponseLen == ANCHOR_ID_IDX + 1

\* C11: a good frame shorter than the shortest Response is rejected before any
\* field is taken from it: handling it leaves the counter and the table as
\* they were, whatever earlier frames left in the receive buffer.
C11_ShortFrameRejected ==
  [][(HandleGoodFrame /\ layout = "unresolved" /\ Len(hwRxFrame) < MinResponseLen)
       => /\ anchorsCount' = anchorsCount
          /\ anchorsTimestamps' = anchorsTimestamps
          /\ written' = written]_vars

RxFailureFlags == {"RXTO", "RXERR"}

\* C12: a receive timeout or error never changes the counter or the table:
\* every step that raises such a flag or is taken with one pending leaves both
\* as they were and leaves the round awaiting responses, so a round with fewer
\* than ANCHORS_TOTAL_COUNT responses does not go on to the Final.
C12_FailuresChangeNothing ==
  [][(sysStatus' \cap RxFailureFlags # {})
       => /\ anchorsCount' = anchorsCount
          /\ anchorsTimestamps' = anchorsTimestamps
          /\ pc' = "Await"
          /\ finalizations' = finalizations]_vars

C12_Witness ==
  /\ pc = "Await"
  /\ anchorsCount = ANCHORS_TOTAL_COUNT - 1
  /\ Cardinality(written) = ANCHORS_TOTAL_COUNT - 1
  /\ layout = "unresolved"
  /\ "RXTO" \in statusReg

\* lines 315-326: the task's endless loop runs whenever it can: vTaskDelay
\* returns and dsInitRun is called again
SpecFair == Spec /\ WF_vars(TaskDelay) /\ WF_vars(StartRound)

\* C13: a round that has ended, Complete or Abandoned, never halts the task:
\* after every returned round the task delays and starts a new round, which
\* transmits a Poll.
C13_TerminatedRoundRestarts ==
  (pc = "Returned") ~> (pc = "Await" /\ radioTx = "poll")

C13_Witness ==
  /\ pc = "Await" /\ radioTx = "poll"
  /\ txCount = 2 /\ finalizations = 1
  /\ written = {} /\ layout = "unresolved"

\* what the first round after power-up, its receive buffer all zero, reads
\* from a frame and whether it records it
FirstRoundRead(frame) ==
  [ReadFrame([i \in 1..RX_BUF_LEN |-> 0], frame) EXCEPT ![EX_SEQ_COUNT_IDX + 1] = 0]
FirstRoundAccepts(frame) ==
  /\ MatchesResponse(FirstRoundRead(frame))
  /\ ~IdRejected(FirstRoundRead(frame)[ANCHOR_ID_IDX + 1])

\* C14: nothing but the sequence counter passes from one round to the next:
\* a round that starts with sequence counter 0 records the first frame it
\* receives exactly when the first round after power-up, which also starts
\* with sequence counter 0, records that frame.
C14_RoundsIndependent ==
  [][(HandleGoodFrame /\ roundRxEvents = 1 /\ exchangeSeqCount = 0)
       => ((anchorsCount' # anchorsCount) <=> FirstRoundAccepts(hwRxFrame))]_vars

\* the Final's payload is what follows the common header in the bytes handed
\* to the transceiver
FinalPayload == SubSeq(txData, ALL_MSG_COMMON_LEN + 1, Len(txData))
FinalPayloadLen == 20
ClaimedAnchor3Offset == 8
Anchor3Offset == 16

Fits40(ts) == \A i \in 6..8 : ts[i] = 0

\* C16: every timestamp the exchange holds, the Poll's TX timestamp, each
\* anchor's RX timestamp, the last RX timestamp and the predicted TX timestamp
\* of the Final, has bits 40..63 zero in every reachable state.
C16_TimestampsFit40 ==
  /\ Fits40(tagTxTimestamp1)
  /\ Fits40(tagRxTimestamp1)
  /\ \A i \in 1..ANCHORS_TOTAL_COUNT : Fits40(anchorsTimestamps[i])
  /\ Fits40(tagTxTimestamp2)

\* C17: after a response is handled, recorded or rejected for its anchor id,
\* the receiver is armed exactly when the counter is still below
\* ANCHORS_TOTAL_COUNT; from the last response's acceptance to the request
\* of the delayed Final the receiver is off and no step turns it on.
C17_RearmIffMoreExpected ==
  [][/\ (HandleGoodFrame /\ MatchesResponse(rxBuffer'))
          => (rxOn' <=> anchorsCount' < ANCHORS_TOTAL_COUNT)
     /\ ((pc = "Await" /\ anchorsCount >= ANCHORS_TOTAL_COUNT) \/ pc = "Finalizing")
          => (~rxOn /\ ~rxOn')]_vars

C17_Witness ==
  /\ pc = "Finalizing" /\ ~rxOn
  /\ written = AllSlots /\ anchorsCount = ANCHORS_TOTAL_COUNT
  /\ roundRxEvents = ANCHORS_TOTAL_COUNT

\* a timestamp's bits 0..15 and bits 16..39, and a 32-bit word's bits 8..31,
\* as numbers
Lo16(ts) == ts[1] + 256 * ts[2]
Hi24(ts) == ts[3] + 256 * ts[4] + 65536 * ts[5]
Top24(w) == w[2] + 256 * w[3] + 65536 * w[4]

\* C18: the scheduled time is (rx + 3800 * 65536) >> 8 kept as a 32-bit value,
\* rx being the anchor timestamp the scheduler is given: its bits 0..7 are
\* bits 8..15 of rx, its bits 8..31 are bits 16..39 of rx plus 3800, modulo
\* 2^24; for rx = 1000000 it is (1000000 + 3800 * 65536) >> 8 = 976706.
C18_ScheduledTime ==
  pc = "Finalizing" =>
    LET rx == anchorsTimestamps[SchedSlot + 1]
    IN  /\ Len(tagSendDelayTime) = 4
        /\ tagSendDelayTime[1] = Lo16(rx) \div 256
        /\ Top24(tagSendDelayTime) = (Hi24(rx) + 3800) % 16777216
        /\ delayedTime = tagSendDelayTime
        /\ (rx = LE(1000000, 8)) =>
             /\ S32(tagSendDelayTime) = (1000000 + 3800 * 65536) \div 256
             /\ S32(tagSendDelayTime) = 976706

C18_Witness ==
  /\ pc = "Finalizing"
  /\ anchorsTimestamps[SchedSlot + 1] = LE(1000000, 8)
  /\ tagSendDelayTime = LE(976706, 4)

\* the Final TX timestamp field of a Final frame
FinalTxField(msg) == SubSeq(msg, FINAL_MSG_TX_2_IDX + 1, FINAL_MSG_TX_2_IDX + FINAL_MSG_TS_LEN)

\* C19: from the building of the Final on, before the transmit request and
\* after the transmission alike, the Final TX timestamp field holds the low 32
\* bits of ((scheduled time & 0xFFFFFFFE) << 8) + 16436: bits 0..7 are 16436
\* mod 256, bits 8..31 are bits 0..23 of the masked scheduled time plus
\* 16436 div 256, modulo 2^24. The bytes handed to the transceiver carry that
\* field, and the TX timestamp register is not copied into it.
C19_EmbeddedFinalTx ==
  PastResponses =>
    LET t == tagSendDelayTime
        masked == (t[1] - (t[1] % 2)) + 256 * t[2] + 65536 * t[3]
        field == FinalTxField(tagFinalMsg)
    IN  /\ field[1] = 16436 % 256
        /\ Top24(field) = (masked + (16436 \div 256)) % 16777216
        /\ FinalTxField(txData) = field

C19_Witness ==
  /\ pc = "Returned" /\ txStatus = DWT_SUCCESS
  /\ tagSendDelayTime[1] % 2 = 1
  /\ FinalTxField(tagFinalMsg) # Low32(getTxTimestampU64(hwTxStamp))
  /\ FinalTxField(tagFinalMsg) = Low32(tagTxTimestamp2)

\* a - b on 64-bit values, byte by byte with borrow
RECURSIVE SubBorrow(_, _, _)
SubBorrow(a, b, c) ==
  IF a = <<>> THEN <<>>
  ELSE LET d == Head(a) - Head(b) - c
       IN  <<(d + 256) % 256>> \o SubBorrow(Tail(a), Tail(b), IF d < 0 THEN 1 ELSE 0)

\* C20: for the RX timestamp rx the scheduler uses, the predicted Final TX
\* timestamp minus the antenna delay 16436 is a multiple of 512 and equals
\* 512 * floor(((rx + 3800 * 65536) mod 2^40) / 512): its bits 0..15 are
\* bits 0..15 of rx with the low 9 cleared, its bits 16..39 are bits 16..39
\* of rx plus 3800, modulo 2^24, and nothing above bit 39: a sum past 2^40
\* wraps.
C20_PredictedOnGrid ==
  pc = "Finalizing" =>
    LET rx == anchorsTimestamps[SchedSlot + 1]
        diff == SubBorrow(tagTxTimestamp2, LE(16436, 8), 0)
    IN  /\ diff[1] = 0 /\ diff[2] % 2 = 0
        /\ Lo16(diff) = Lo16(rx) - (Lo16(rx) % 512)
        /\ Hi24(diff) = (Hi24(rx) + 3800) % 16777216
        /\ Fits40(diff)

C20_Witness ==
  /\ pc = "Finalizing"
  /\ Hi24(anchorsTimestamps[SchedSlot + 1]) + 3800 >= 16777216
  /\ Lo16(anchorsTimestamps[SchedSlot + 1]) % 512 # 0
  /\ tagSendDelayTime[1] % 2 = 1

\* C21: at the start of every exchange, until the first receive event of that
\* exchange is signalled, every slot of the table is zero and the response
\* counter is zero, whatever the previous round left behind.
C21_ResetAtStart ==
  (pc = "Await" /\ roundRxEvents = 0)
    => /\ \A i \in 1..ANCHORS_TOTAL_COUNT : anchorsTimestamps[i] = Zero64
       /\ anchorsCount = 0

C21_Witness ==
  /\ pc = "Await" /\ roundRxEvents = 0
  /\ txCount = 2 /\ rxEvents = ANCHORS_TOTAL_COUNT /\ layout = "unresolved"
  /\ SubSeq(tagFinalMsg, FINAL_MSG_RX_1_IDX + 1, FINAL_MSG_RX_1_IDX + FINAL_MSG_TS_LEN) # <<0, 0, 0, 0>>
  /\ anchorsTimestamps = [i \in 1..ANCHORS_TOTAL_COUNT |-> Zero64]

\* the k least significant bytes of a 64-bit value, least significant first
RECURSIVE Decompose(_, _)
Decompose(v, k) == IF k = 0 THEN <<>> ELSE <<Low8(v)>> \o Decompose(Shr8(v), k - 1)

\* C22: the timestamp readers invert the 5-byte little-endian decomposition:
\* the value the TX reader or the RX reader assembles from the 5 bytes of the
\* register is below 2^40 and decomposes into those 5 bytes, least
\* significant first; the bytes of 10000 assemble to 10000 and those of
\* 1000000 to 1000000.
C22_AssembleInvertsDecompose ==
  [][/\ BuildFinal
          => /\ Fits40(tagTxTimestamp1')
             /\ Decompose(tagTxTimestamp1', 5) = hwTxStamp
             /\ (hwTxStamp = Decompose(LE(10000, 8), 5))
                  => S32(Low32(tagTxTimestamp1')) = 10000
     /\ (HandleGoodFrame /\ MatchesResponse(rxBuffer'))
          => /\ Fits40(tagRxTimestamp1')
             /\ Decompose(tagRxTimestamp1', 5) = hwRxStamp
             /\ (hwRxStamp = Decompose(LE(1000000, 8), 5))
                  => S32(Low32(tagRxTimestamp1')) = 1000000]_vars

C22_Witness ==
  /\ pc = "Finalizing"
  /\ hwTxStamp = <<1, 0, 0, 128, 255>>
  /\ tagTxTimestamp1 = <<1, 0, 0, 128, 255, 0, 0, 0>>
  /\ hwRxStamp = <<0, 192, 39, 241, 255>>
  /\ tagRxTimestamp1 = <<0, 192, 39, 241, 255, 0, 0, 0>>

\* a 4-byte field of a frame
Field(msg, base) == SubSeq(msg, base + 1, base + FINAL_MSG_TS_LEN)

\* a <= b for values below 2^40
Leq40(a, b) == Hi24(a) < Hi24(b) \/ (Hi24(a) = Hi24(b) /\ Lo16(a) <= Lo16(b))

\* the 40-bit timestamps of the Final with the fields written for them: the
\* Poll's TX timestamp, the anchors' RX timestamps, the predicted TX timestamp
FinalEntries ==
  {e \in {<<tagTxTimestamp1, Field(tagFinalMsg, FINAL_MSG_TX_1_IDX)>>,
          <<tagTxTimestamp2, Field(tagFinalMsg, FINAL_MSG_TX_2_IDX)>>}
         \cup {<<anchorsTimestamps[i],
                 Field(tagFinalMsg, FINAL_MSG_RX_1_IDX + (i - 1) * FINAL_MSG_TS_LEN)>>
               : i \in 1..ANCHORS_TOTAL_COUNT} :
     Fits40(e[1])}

\* C23: for any two 40-bit timestamps a <= b of a Final with b - a < 2^32,
\* the 4-byte little-endian fields written for them satisfy
\* (field(b) - field(a)) mod 2^32 = b - a; the fields of 0xFFFFFFF0 and of
\* the Final TX time 0x10ED83E34 predicted from it differ by 0xED83E44.
C23_FieldDifference ==
  pc = "Finalizing" =>
    \A ea \in FinalEntries, eb \in FinalEntries :
      LET diff == SubBorrow(eb[1], ea[1], 0)
      IN  (Leq40(ea[1], eb[1]) /\ SubSeq(diff, 5, 8) = <<0, 0, 0, 0>>)
            => /\ SubBorrow(eb[2], ea[2], 0) = Low32(diff)
               /\ (ea[1] = <<240, 255, 255, 255, 0, 0, 0, 0>>
                     /\ eb[1] = <<52, 62, 216, 14, 1, 0, 0, 0>>)
                    => S32(SubBorrow(eb[2], ea[2], 0)) = 249052740

C23_Witness ==
  /\ pc = "Finalizing"
  /\ anchorsTimestamps[SchedSlot + 1] = <<240, 255, 255, 255, 0, 0, 0, 0>>
  /\ tagTxTimestamp2 = <<52, 62, 216, 14, 1, 0, 0, 0>>
  /\ Field(tagFinalMsg, FINAL_MSG_TX_2_IDX) = <<52, 62, 216, 14>>

\* C24: every store the response loop makes into the anchor timestamp table
\* uses an index in 0..ANCHORS_TOTAL_COUNT-1, whatever anchor-id byte the
\* Response carries.
C24_StoresInBounds == \A index \in written : index \in AllSlots

\* C25: in the Final of a round the field of anchor i holds the low 32 bits
\* of the RX timestamp of the last response recorded for anchor i in that
\* round, and zero if none was; never a timestamp of an earlier round.
C25_FieldsFromThisRound ==
  pc = "Finalizing" =>
    \A i \in 1..ANCHORS_TOTAL_COUNT :
      Field(tagFinalMsg, FINAL_MSG_RX_1_IDX + (i - 1) * FINAL_MSG_TS_LEN)
        = SubSeq(acceptedRx[i], 1, 4)

C25_Witness ==
  /\ pc = "Finalizing" /\ finalizations = 2 /\ roundRxEvents = ANCHORS_TOTAL_COUNT
  /\ acceptedRx[1] = <<240, 255, 255, 255, 0>>
  /\ acceptedRx[2] = <<64, 66, 15, 0, 0>>
  /\ acceptedRx[3] = <<0, 0, 0, 0, 0>>
  /\ Field(tagFinalMsg, FINAL_MSG_RX_1_IDX) = <<240, 255, 255, 255>>
  /\ Field(tagFinalMsg, FINAL_MSG_RX_1_IDX + 2 * FINAL_MSG_TS_LEN) = <<0, 0, 0, 0>>

ExpectedBranch(x, y, z) ==
  CASE y # 0 /\ z # 0 -> "none"
    [] y # 0 /\ z = 0 -> "strafe"
    [] y = 0 /\ x = 0 /\ z = 0 -> "stop"
    [] y = 0 /\ x # 0 /\ z = 0 -> "straight"
    [] y = 0 /\ x = 0 /\ z # 0 -> "spotTurn"
    [] y = 0 /\ x # 0 /\ z # 0 -> "arcTurn"

\* C27: solveTwist returns TWIST_UNKNOWN exactly when linear.y and angular.z
\* are both non-zero, whatever linear.x; for every other combination it takes
\* the stop, straight, spot-turn, arc-turn or strafe case and returns another
\* value.
C27_UnknownIffStrafeWithTurn ==
  twistCall # NoTwistCall =>
    /\ (twistCall.out.result = "TWIST_UNKNOWN") <=> (twistCall.y # 0 /\ twistCall.z # 0)
    /\ twistCall.out.branch = ExpectedBranch(twistCall.x, twistCall.y, twistCall.z)
    /\ twistCall.out.result \in {"TWIST_OK", "TWIST_ZERO", "TWIST_EX_LIM", "TWIST_UNKNOWN"}

C27_Witness ==
  /\ twistCall # NoTwistCall
  /\ twistCall.x = 0 /\ twistCall.y # 0 /\ twistCall.z # 0
  /\ twistCall.out.result = "TWIST_UNKNOWN"

====
